---- MODULE Spec2Model ----
(***************************************************************************)
(* Trackoon server (src/server.py): the process-wide graph snapshot        *)
(* current_data, the CSV import that builds and publishes it, the layout   *)
(* change that repositions it, and the read-only query endpoints.          *)
(*                                                                         *)
(* Data representation.                                                    *)
(*  - A Python str is a sequence of one-character strings; "" is << >>.    *)
(*  - An EventTime / date string is the sequence of its numeric fields     *)
(*    <<day, hour, minute, second>> (day counted from the epoch); << >> is *)
(*    the empty string. Both isoparse and strptime read naive local times, *)
(*    so the local UTC offset cancels and is left out.                     *)
(*  - A dict with insertion order and unique keys (nodes) is a sequence of *)
(*    records with pairwise distinct ids.                                  *)
(*  - An optional dict key is a flag next to the value (has_ip / ip).      *)
(*  - A float that is a quotient is kept as an exact fraction [num, den].  *)
(*  - A position {x, y, z} is [alg, p]: the algorithm that produced it and *)
(*    the integers that determine the three coordinates.                   *)
(***************************************************************************)
EXTENDS Integers, Sequences, FiniteSets, TLC

VARIABLES current_data, resp, uploads, thread

vars == <<current_data, resp, uploads, thread>>

(***************************************************************************)
(* Bounds of the model.                                                    *)
(***************************************************************************)
MaxRows == 2

NThreads == 3

(***************************************************************************)
(* Strings used by the inputs.                                             *)
(***************************************************************************)
Dot == "."

IpQuad == <<"1", ".", "1", ".", "1", ".", "1">>

IpNoDots == <<":", ":", "1">>

IpBadOctet == <<"1", ".", "1", ".", "a", ".", "1">>

Digits == {"0", "1", "2", "3", "4", "5", "6", "7", "8", "9"}

DigitVal(c) ==
    CASE c = "0" -> 0 [] c = "1" -> 1 [] c = "2" -> 2 [] c = "3" -> 3
      [] c = "4" -> 4 [] c = "5" -> 5 [] c = "6" -> 6 [] c = "7" -> 7
      [] c = "8" -> 8 [] c = "9" -> 9

(***************************************************************************)
(* Python helpers.                                                         *)
(***************************************************************************)
\* str.split('.'): the parts between the dots, [''] for the empty string.
RECURSIVE split(_)
split(s) ==
    IF \A i \in 1..Len(s) : s[i] # Dot
    THEN <<s>>
    ELSE LET i == CHOOSE k \in 1..Len(s) :
                      s[k] = Dot /\ \A j \in 1..(k - 1) : s[j] # Dot
         IN  <<SubSeq(s, 1, i - 1)>> \o split(SubSeq(s, i + 1, Len(s)))

\* '.' in s
has_dot(s) == \E i \in 1..Len(s) : s[i] = Dot

\* int(s) succeeds on a non-empty run of decimal digits (the inputs hold no
\* sign, blank or underscore).
int_ok(s) == Len(s) > 0 /\ \A i \in 1..Len(s) : s[i] \in Digits

RECURSIVE int(_)
int(s) == IF s = << >> THEN 0 ELSE 10 * int(SubSeq(s, 1, Len(s) - 1)) + DigitVal(s[Len(s)])

\* u in s, for two str
substring_in(u, s) ==
    \E i \in 1..(Len(s) + 1) :
        i + Len(u) - 1 <= Len(s) /\ SubSeq(s, i, i + Len(u) - 1) = u

\* dict item assignment m[k] = v
put(m, k, v) == [x \in (DOMAIN m) \cup {k} |-> IF x = k THEN v ELSE m[x]]

EmptyDict == [x \in {} |-> 0]

\* dict.get(k, default)
get(m, k, default) == IF k \in DOMAIN m THEN m[k] ELSE default

Range(s) == {s[i] : i \in 1..Len(s)}

MaxOf(S) == CHOOSE m \in S : \A x \in S : x <= m

\* math.ceil(math.sqrt(n)) for a length n
ceil_sqrt(n) == CHOOSE g \in 0..n : g * g >= n /\ \A h \in 0..(g - 1) : h * h < n

\* random.uniform(lo, hi): the generator's state is not known to the caller;
\* seed stands for it and k is the number of the draw.
uniform(seed, k, lo, hi) == IF (seed + k) % 2 = 0 THEN lo ELSE hi

strip_domain(hostname) == split(hostname)[1]

\* parser.isoparse / datetime.strptime accept a complete date and time whose
\* fields are in range, and raise ValueError otherwise.
time_ok(t) ==
    /\ Len(t) = 4
    /\ t[1] >= 0
    /\ t[2] \in 0..23
    /\ t[3] \in 0..59
    /\ t[4] \in 0..59

\* datetime.timestamp(): seconds since the epoch
timestamp(t) == ((t[1] * 24 + t[2]) * 60 + t[3]) * 60 + t[4]

(***************************************************************************)
(* Layout engine (lines 18-102).  A position map is a function from node   *)
(* ids to positions; {} is the function with the empty domain.             *)
(***************************************************************************)
ids_of(node_list) == {node_list[i].id : i \in 1..Len(node_list)}

\* enumerate(): the 0-based index at which the id is (last) assigned
index_of(node_list, id) ==
    (CHOOSE i \in 1..Len(node_list) :
        /\ node_list[i].id = id
        /\ \A j \in (i + 1)..Len(node_list) : node_list[j].id # id) - 1

calculate_grid_layout(node_list) ==
    LET grid_size == ceil_sqrt(Len(node_list))
    IN  [id \in ids_of(node_list) |->
            LET index == index_of(node_list, id)
                row   == index \div grid_size
                col   == index % grid_size
            IN  [alg |-> "grid", p |-> <<col * 300, row * 300, 0>>]]

\* x = 300 cos(index * 2 pi / n), y = 300 sin(index * 2 pi / n), z = 0
calculate_circular_layout(node_list) ==
    [id \in ids_of(node_list) |->
        [alg |-> "circular", p |-> <<index_of(node_list, id), Len(node_list), 300>>]]

calculate_random_layout(node_list, seed) ==
    [id \in ids_of(node_list) |->
        LET k == 3 * index_of(node_list, id)
        IN  [alg |-> "random",
             p   |-> <<uniform(seed, k, -10000, 10000),
                       uniform(seed, k + 1, -10000, 10000),
                       uniform(seed, k + 2, -10000, 10000)>>]]

\* lines 56-59: the node takes part in the grouping
has_quad_ip(node) ==
    /\ node.has_ip
    /\ node.ip # << >>
    /\ has_dot(node.ip)
    /\ Len(split(node.ip)) = 4

third_octet(node) == int(split(node.ip)[3])

\* the keys of groups, in insertion order
RECURSIVE group_keys(_)
group_keys(grouped) ==
    IF grouped = << >> THEN << >>
    ELSE LET rest == group_keys(SubSeq(grouped, 1, Len(grouped) - 1))
             key  == third_octet(grouped[Len(grouped)])
         IN  IF key \in Range(rest) THEN rest ELSE Append(rest, key)

\* lines 48-52
smart_edge_count(edges, id) ==
    Cardinality({i \in 1..Len(edges) : edges[i].source = id})
    + Cardinality({i \in 1..Len(edges) : edges[i].target = id})

calculate_smart_layout(node_list, edges, seed) ==
    LET ids         == ids_of(node_list)
        key_error   == \E i \in 1..Len(edges) :
                           edges[i].source \notin ids \/ edges[i].target \notin ids
        value_error == \E i \in 1..Len(node_list) :
                           /\ has_quad_ip(node_list[i])
                           /\ ~int_ok(split(node_list[i].ip)[3])
    IN  IF key_error \/ value_error THEN EmptyDict
        ELSE
        LET grouped      == SelectSeq(node_list, has_quad_ip)
            keys         == group_keys(grouped)
            total_groups == Len(keys)
        IN  IF total_groups = 0 THEN EmptyDict      \* ZeroDivisionError, line 66
            ELSE
            [id \in ids |->
                LET node == node_list[index_of(node_list, id) + 1]
                    k    == 3 * index_of(node_list, id)
                IN  IF has_quad_ip(node)
                    THEN LET key     == third_octet(node)
                             index   == (CHOOSE g \in 1..Len(keys) : keys[g] = key) - 1
                             members == SelectSeq(grouped, LAMBDA n : third_octet(n) = key)
                         IN  [alg |-> "smart",
                              p   |-> <<index, total_groups,
                                        index_of(members, id), Len(members),
                                        uniform(seed, k, -300, 300),
                                        uniform(seed, k + 1, -300, 300),
                                        smart_edge_count(edges, id) * 50>>]
                    ELSE [alg |-> "smart_ungrouped",
                          p   |-> <<uniform(seed, k, -5000, 5000),
                                    uniform(seed, k + 1, -5000, 5000),
                                    uniform(seed, k + 2, -5000, 5000)>>]]

\* the dispatch on the layout name, lines 202-213 and 352-363
layout_positions(layout, node_list, edges, seed) ==
    CASE layout = "grid"     -> calculate_grid_layout(node_list)
      [] layout = "circular" -> calculate_circular_layout(node_list)
      [] layout = "random"   -> calculate_random_layout(node_list, seed)
      [] layout = "smart"    -> calculate_smart_layout(node_list, edges, seed)
      [] OTHER               -> calculate_random_layout(node_list, seed)

\* lines 215-219 and 365-369: node.update(node_positions[id])
apply_positions(node_list, node_positions) ==
    [i \in 1..Len(node_list) |->
        IF node_list[i].id \in DOMAIN node_positions
        THEN [node_list[i] EXCEPT !.pos = node_positions[node_list[i].id]]
        ELSE node_list[i]]

MissingIpMessage ==
    "One or more nodes are missing IP addresses. All nodes must have IP addresses."

(***************************************************************************)
(* Uploaded files.  A file is the list of its rows as csv.DictReader gives *)
(* them, every consumed column present.                                    *)
(***************************************************************************)
\* IpResolved names the computer itself: the edge is a self-loop on "a"
RowSelf ==
    [EventTime |-> <<1, 12, 0, 0>>, Computer |-> <<"a", ".", "x">>,
     IpAddress |-> IpQuad, TargetUserName |-> <<"a", "l">>,
     IpResolved |-> <<"a", ".", "y">>]

\* an address without dots and without a resolved name
RowUnresolved ==
    [EventTime |-> <<2, 0, 0, 0>>, Computer |-> <<"a", ".", "x">>,
     IpAddress |-> IpNoDots, TargetUserName |-> <<"b", "o">>,
     IpResolved |-> << >>]

\* four dotted parts, the third not a number
RowBadOctet ==
    [EventTime |-> <<1, 12, 0, 0>>, Computer |-> <<"b">>,
     IpAddress |-> IpBadOctet, TargetUserName |-> <<"a", "l">>,
     IpResolved |-> << >>]

\* hour 25: isoparse raises
RowBadTime ==
    [EventTime |-> <<1, 25, 0, 0>>, Computer |-> <<"b">>,
     IpAddress |-> IpQuad, TargetUserName |-> <<"b", "o">>,
     IpResolved |-> << >>]

Rows == {RowSelf, RowUnresolved, RowBadOctet, RowBadTime}

FilesUpTo(n) == UNION {[1..k -> Rows] : k \in 0..n}

Files == FilesUpTo(MaxRows)

LayoutNames == {"grid", "circular", "random", "smart", "spiral"}

Seeds == {0, 1}

\* the layouts that call random.uniform read the generator, the others do not
seeds_of(layout) == IF layout \in {"grid", "circular"} THEN {0} ELSE Seeds

(***************************************************************************)
(* process_csv (lines 119-226)                                             *)
(***************************************************************************)
\* lines 131-136
RECURSIVE resolver(_, _)
resolver(rows, ip_to_hostname) ==
    IF rows = << >> THEN ip_to_hostname
    ELSE LET row == Head(rows)
         IN  resolver(Tail(rows),
                 IF row.IpAddress # << >> /\ row.IpResolved # << >>
                 THEN put(ip_to_hostname, row.IpAddress, strip_domain(row.IpResolved))
                 ELSE ip_to_hostname)

has_node(nodes, id) == \E i \in 1..Len(nodes) : nodes[i].id = id

NoPos == [alg |-> "none", p |-> << >>]

\* f"{id} ({ip})"
label_with_ip(id, ip) == id \o <<" ", "(">> \o ip \o <<")">>

\* lines 152-154
backfill(nodes, source_id, source_label, ip_address) ==
    [i \in 1..Len(nodes) |->
        IF nodes[i].id = source_id /\ ~nodes[i].has_ip
        THEN [nodes[i] EXCEPT !.label = source_label, !.has_ip = TRUE,
                              !.ip = ip_address]
        ELSE nodes[i]]

\* add_if_absent with a host that has no address of its own left out
add_if_absent_with_ip(nodes, node) ==
    IF has_node(nodes, node.id) \/ ~node.has_ip THEN nodes ELSE Append(nodes, node)

\* lines 159-162: if id not in nodes: nodes[id] = node
add_if_absent(nodes, node) ==
    IF has_node(nodes, node.id) THEN nodes ELSE Append(nodes, node)

\* one pass of the loop body, lines 139-180, for a row that is not skipped
add_row(acc, row, ip_to_hostname) ==
    LET computer     == strip_domain(row.Computer)
        ip_address   == row.IpAddress
        resolved     == ip_address \in DOMAIN ip_to_hostname
        source_id    == IF resolved THEN ip_to_hostname[ip_address] ELSE ip_address
        source_label == IF resolved THEN label_with_ip(source_id, ip_address)
                        ELSE ip_address
        nodes1 == IF resolved THEN backfill(acc.nodes, source_id, source_label, ip_address)
                  ELSE acc.nodes
        nodes2 == add_if_absent(nodes1,
                      [id |-> source_id, label |-> source_label,
                       size |-> [num |-> 10, den |-> 1], has_ip |-> TRUE,
                       ip |-> ip_address, color |-> "", pos |-> NoPos])
        nodes3 == add_if_absent(nodes2,
                      [id |-> computer,
                       label |-> IF resolved THEN label_with_ip(computer, ip_address)
                                 ELSE computer,
                       size |-> [num |-> 10, den |-> 1], has_ip |-> FALSE,
                       ip |-> << >>, color |-> "", pos |-> NoPos])
        edge == [source |-> source_id, target |-> computer,
                 timestamp |-> timestamp(row.EventTime),
                 user |-> row.TargetUserName, color |-> <<0, 0>>]
        \* tuple(sorted([source_id, computer])): the unordered pair
        edge_group_key == {source_id, computer}
        count1 == put(acc.node_edge_count, source_id,
                      get(acc.node_edge_count, source_id, 0) + 1)
        count2 == put(count1, computer, get(count1, computer, 0) + 1)
    IN  [nodes |-> nodes3,
         edges |-> Append(acc.edges, edge),
         edge_groups |-> put(acc.edge_groups, edge_group_key,
                             get(acc.edge_groups, edge_group_key, 0) + 1),
         node_edge_count |-> count2,
         error |-> ""]

\* lines 138-180; an exception leaves the loop
RECURSIVE build(_, _, _)
build(rows, acc, ip_to_hostname) ==
    IF rows = << >> THEN acc
    ELSE LET row == Head(rows)
         IN  IF \/ row.EventTime = << >>
                \/ strip_domain(row.Computer) = << >>
                \/ row.IpAddress = << >>
             THEN build(Tail(rows), acc, ip_to_hostname)
             ELSE IF ~time_ok(row.EventTime)
             THEN [acc EXCEPT !.error = "isoparse: invalid time"]
             ELSE build(Tail(rows), add_row(acc, row, ip_to_hostname), ip_to_hostname)

EmptyGraph ==
    [nodes |-> << >>, edges |-> << >>, edge_groups |-> EmptyDict,
     node_edge_count |-> EmptyDict, error |-> ""]

\* calculate_node_size without the division by max_edges
calculate_node_size_unscaled(num_edges, max_edges) ==
    [num |-> 10 + 20 * num_edges, den |-> 1]

\* lines 114-117: 10 + (num_edges / max_edges) * 20
calculate_node_size(num_edges, max_edges) ==
    [num |-> 10 * max_edges + 20 * num_edges, den |-> max_edges]

\* lines 107-112: the jet colour of (num_edges - vmin) / (vmax - vmin), kept
\* as the pair (num_edges, max_edges) that determines it
calculate_edge_color(num_edges, max_edges) == <<num_edges, max_edges>>

\* lines 182-198
style(g, ip_to_hostname) ==
    LET max_node_edges ==
            IF DOMAIN g.node_edge_count = {} THEN 1
            ELSE MaxOf({g.node_edge_count[k] : k \in DOMAIN g.node_edge_count})
        max_edges == MaxOf({g.edge_groups[k] : k \in DOMAIN g.edge_groups})
    IN  [g EXCEPT
           !.nodes = [i \in 1..Len(g.nodes) |->
               [g.nodes[i] EXCEPT
                  !.color = IF g.nodes[i].has_ip /\ g.nodes[i].ip \in DOMAIN ip_to_hostname
                            THEN "blue" ELSE "red",
                  !.size  = calculate_node_size(g.node_edge_count[g.nodes[i].id],
                                                max_node_edges)]],
           !.edges = [i \in 1..Len(g.edges) |->
               [g.edges[i] EXCEPT
                  !.color = calculate_edge_color(
                                g.edge_groups[{g.edges[i].source, g.edges[i].target}],
                                max_edges)]]]

NoData == [is_none |-> TRUE, nodes |-> << >>, edges |-> << >>]

snapshot(nodes, edges) == [is_none |-> FALSE, nodes |-> nodes, edges |-> edges]

error_dict(message) ==
    [is_error |-> TRUE, error |-> message, nodes |-> << >>, edges |-> << >>]

data_dict(data) ==
    [is_error |-> FALSE, error |-> "", nodes |-> data.nodes, edges |-> data.edges]

\* lines 121-198: the styled graph of a file, or the exception that ends the
\* try block before the layout
build_graph(file) ==
    LET ip_to_hostname == resolver(file, EmptyDict)
        g == build(file, EmptyGraph, ip_to_hostname)
    IN  IF g.error # "" THEN g
        ELSE IF DOMAIN g.edge_groups = {}
        THEN [g EXCEPT !.error = "max() arg is an empty sequence"]    \* line 191
        ELSE style(g, ip_to_hostname)

\* lines 209-219: the early return of the smart layout, or the positions
\* written into the nodes
positioned(g, layout, node_positions) ==
    IF layout = "smart" /\ DOMAIN node_positions = {}
    THEN [error |-> MissingIpMessage, nodes |-> g.nodes, edges |-> g.edges]
    ELSE [error |-> "",
          nodes |-> apply_positions(g.nodes, node_positions),
          edges |-> g.edges]

\* lines 200-219 for the graph g of lines 121-198
laid_out(g, layout, seed) ==
    IF g.error # "" THEN [error |-> g.error, nodes |-> g.nodes, edges |-> g.edges]
    ELSE positioned(g, layout, layout_positions(layout, g.nodes, g.edges, seed))

\* lines 121-219: the locals nodes and edges and the exception or early
\* return, if any, when control leaves the code before line 221
import_graph(file, layout, seed) == laid_out(build_graph(file), layout, seed)

\* a function evaluated at every argument once and kept as a table
tabulated(f) == f @@ << >>

\* import_graph of every request
Imports ==
    tabulated([file \in Files |->
        tabulated([layout \in LayoutNames |->
            tabulated([seed \in Seeds |-> import_graph(file, layout, seed)])])])

\* publish with current_data assigned before the smart layout is checked
publish_first(cur, g) ==
    IF g.error = MissingIpMessage
    THEN [current_data |-> snapshot(g.nodes, g.edges), error |-> g.error]
    ELSE IF g.error # "" THEN [current_data |-> cur, error |-> g.error]
    ELSE [current_data |-> snapshot(g.nodes, g.edges), error |-> ""]

\* line 221, the only assignment of current_data: reached when no exception
\* and no early return (g.error) left the code before it
publish(cur, g) ==
    IF g.error # "" THEN [current_data |-> cur, error |-> g.error]
    ELSE [current_data |-> snapshot(g.nodes, g.edges), error |-> ""]

\* lines 119-226: what the call leaves in current_data, and the error it
\* returns ("" when it reaches line 226)
process_csv(cur, file, layout, seed) == publish(cur, Imports[file][layout][seed])

(***************************************************************************)
(* Responses.  A response is the endpoint, the request it answers, the     *)
(* HTTP status and the JSON body: an error object or nodes and edges.      *)
(***************************************************************************)
NoGraphMessage == "No graph data available"

\* what a request carries: whether the file or the body's keys are present,
\* the node id or user, the two dates, and the layout field
Arg(present, value, start_date, end_date, has_layout, layout) ==
    [present |-> present, value |-> value, start_date |-> start_date,
     end_date |-> end_date, has_layout |-> has_layout, layout |-> layout]

NoArg == Arg(FALSE, << >>, << >>, << >>, FALSE, "")

response(endpoint, arg, status, body) ==
    [endpoint |-> endpoint, arg |-> arg, status |-> status,
     is_error |-> body.is_error, error |-> body.error,
     nodes |-> body.nodes, edges |-> body.edges]

\* dict.get('layout', 'grid')
get_layout(arg) == IF arg.has_layout THEN arg.layout ELSE "grid"

(***************************************************************************)
(* upload_file (lines 232-246); data is what process_csv returned          *)
(***************************************************************************)
upload_response(arg, data) ==
    IF data.is_error THEN response("/upload", arg, 500, data)
    ELSE IF data.nodes = << >> \/ data.edges = << >>
    THEN response("/upload", arg, 500, error_dict("Invalid data structure"))
    ELSE response("/upload", arg, 200, data)

(***************************************************************************)
(* highlight_data (lines 248-273)                                          *)
(***************************************************************************)
\* highlighted_edges that looks at the source only
highlighted_edges_source_only(edges, node_id) ==
    SelectSeq(edges, LAMBDA edge : edge.source = node_id)

\* line 260
highlighted_edges(edges, node_id) ==
    SelectSeq(edges, LAMBDA edge : edge.source = node_id \/ edge.target = node_id)

\* lines 261-264
highlighted_nodes_ids(edges, node_id) ==
    {node_id} \cup {edges[i].source : i \in 1..Len(edges)}
              \cup {edges[i].target : i \in 1..Len(edges)}

\* lines 266, 312, 333
nodes_with_ids(nodes, ids) == SelectSeq(nodes, LAMBDA node : node.id \in ids)

(***************************************************************************)
(* filter_data (lines 292-317)                                             *)
(***************************************************************************)
\* strptime(s, "%Y-%m-%dT%H:%M"): <<day, hour, minute>>
date_ok(d) == Len(d) = 3 /\ d[1] >= 0 /\ d[2] \in 0..23 /\ d[3] \in 0..59

start_of(start_date) == timestamp(start_date \o <<0>>)

\* + timedelta(days=1) - timedelta(seconds=1)
end_of(end_date) == timestamp(end_date \o <<0>>) + 24 * 60 * 60 - 1

\* filtered_edges with the start excluded
filtered_edges_after_start(edges, start_timestamp, end_timestamp) ==
    SelectSeq(edges, LAMBDA edge :
        start_timestamp < edge.timestamp /\ edge.timestamp <= end_timestamp)

\* lines 306-309
filtered_edges(edges, start_timestamp, end_timestamp) ==
    SelectSeq(edges, LAMBDA edge :
        start_timestamp <= edge.timestamp /\ edge.timestamp <= end_timestamp)

endpoint_ids(edges) ==
    {edges[i].source : i \in 1..Len(edges)} \cup {edges[i].target : i \in 1..Len(edges)}

\* line 329
user_filtered_edges(edges, user) ==
    SelectSeq(edges, LAMBDA edge : substring_in(user, edge.user))

(***************************************************************************)
(* The handlers, each run from its first line to its return.  A handler    *)
(* gives the value of current_data it leaves and the response it sends.    *)
(***************************************************************************)
graph_body(nodes, edges) ==
    [is_error |-> FALSE, error |-> "", nodes |-> nodes, edges |-> edges]

no_graph(endpoint, arg) == response(endpoint, arg, 400, error_dict(NoGraphMessage))

\* lines 239-246 for the value r of the call of process_csv
upload_return(arg, r) ==
    [current_data |-> r.current_data,
     resp |-> upload_response(arg, IF r.error # "" THEN error_dict(r.error)
                                   ELSE data_dict(r.current_data))]    \* line 226

upload_file(cur, arg, file, seed) ==
    IF ~arg.present
    THEN [current_data |-> cur,
          resp |-> response("/upload", arg, 400, error_dict("No file provided"))]
    ELSE upload_return(arg, process_csv(cur, file, get_layout(arg), seed))

highlight_data(cur, arg) ==
    IF cur.is_none THEN no_graph("/highlight", arg)
    ELSE IF ~arg.present \/ arg.value = << >>
    THEN response("/highlight", arg, 400, error_dict("Node ID is required"))
    ELSE LET edges == highlighted_edges(cur.edges, arg.value)
             ids   == highlighted_nodes_ids(edges, arg.value)
         IN  response("/highlight", arg, 200,
                      graph_body(nodes_with_ids(cur.nodes, ids), edges))

get_nodes(cur) ==
    IF cur.is_none THEN no_graph("/nodes", NoArg)
    ELSE response("/nodes", NoArg, 200,
             graph_body([i \in 1..Len(cur.nodes) |->
                            [id |-> cur.nodes[i].id, label |-> cur.nodes[i].label]],
                        << >>))

get_full_graph(cur) ==
    IF cur.is_none THEN no_graph("/full_graph", NoArg)
    ELSE response("/full_graph", NoArg, 200, data_dict(cur))

filter_data(cur, arg) ==
    IF cur.is_none THEN no_graph("/filter", arg)
    ELSE IF ~arg.present
    THEN response("/filter", arg, 500, error_dict("'start_date'"))
    ELSE IF ~date_ok(arg.start_date) \/ ~date_ok(arg.end_date)
    THEN response("/filter", arg, 500, error_dict("time data does not match format"))
    ELSE LET edges == filtered_edges(cur.edges, start_of(arg.start_date),
                                     end_of(arg.end_date))
         IN  response("/filter", arg, 200,
                      graph_body(nodes_with_ids(cur.nodes, endpoint_ids(edges)), edges))

filter_by_user_route(cur, arg) ==
    IF cur.is_none THEN no_graph("/filter_by_user", arg)
    ELSE IF ~arg.present
    THEN response("/filter_by_user", arg, 500, error_dict("'user'"))
    ELSE LET edges == user_filtered_edges(cur.edges, arg.value)
         IN  response("/filter_by_user", arg, 200,
                      graph_body(nodes_with_ids(cur.nodes, endpoint_ids(edges)), edges))

update_layout(cur, arg, seed) ==
    IF cur.is_none
    THEN [current_data |-> cur, resp |-> no_graph("/layout", arg)]
    ELSE LET layout         == get_layout(arg)
             node_list      == cur.nodes
             node_positions == layout_positions(layout, node_list, cur.edges, seed)
         IN  IF layout = "smart" /\ DOMAIN node_positions = {}
             THEN [current_data |-> cur,                   \* line 361: no status
                   resp |-> response("/layout", arg, 200, error_dict(MissingIpMessage))]
             ELSE LET new == [cur EXCEPT
                                !.nodes = apply_positions(node_list, node_positions)]
                  IN  [current_data |-> new,
                       resp |-> response("/layout", arg, 200, data_dict(new))]

(***************************************************************************)
(* Requests                                                                *)
(***************************************************************************)
LayoutArgs ==
    {Arg(TRUE, << >>, << >>, << >>, FALSE, "")}
    \cup {Arg(TRUE, << >>, << >>, << >>, TRUE, l) : l \in LayoutNames}

NodeIds == {<< >>, <<"a">>, <<"b">>, <<"z">>}

NodeIdArgs == {NoArg} \cup {Arg(TRUE, id, << >>, << >>, FALSE, "") : id \in NodeIds}

Users == {<< >>, <<"a">>, <<"b", "o">>}

UserArgs == {NoArg} \cup {Arg(TRUE, u, << >>, << >>, FALSE, "") : u \in Users}

Dates == {<<0, 0, 0>>, <<1, 0, 0>>, <<2, 0, 0>>}

\* hour 25: strptime raises
BadDate == <<1, 25, 0>>

FilterArgs ==
    {NoArg, Arg(TRUE, << >>, BadDate, <<1, 0, 0>>, FALSE, "")}
    \cup {Arg(TRUE, << >>, s, e, FALSE, "") : s \in Dates, e \in Dates}

(***************************************************************************)
(* Requests served one at a time.  uploads remembers whether an /upload    *)
(* has been answered yet, and whether one has been answered with 200.      *)
(***************************************************************************)
\* a request not yet taken up by its thread
new == [pc |-> "new", arg |-> NoArg, nodes |-> << >>, edges |-> << >>, error |-> ""]

Threads == 1..NThreads

Init ==
    /\ current_data = NoData
    /\ resp = response("", NoArg, 0, graph_body(<< >>, << >>))
    /\ uploads = "none"
    /\ thread = [t \in Threads |-> new]

answered(r) ==
    IF r.endpoint # "/upload" THEN uploads
    ELSE IF r.status = 200 \/ uploads = "ok" THEN "ok" ELSE "failed"

Upload ==
    \E file \in Files, arg \in LayoutArgs :
      \E seed \in seeds_of(get_layout(arg)) :
        LET r == upload_file(current_data, arg, file, seed)
        IN  /\ current_data' = r.current_data
            /\ resp' = r.resp
            /\ uploads' = answered(r.resp)
            /\ UNCHANGED thread

UploadNoFile ==
    LET r == upload_file(current_data, NoArg, << >>, 0)
    IN  /\ current_data' = r.current_data
        /\ resp' = r.resp
        /\ uploads' = answered(r.resp)
        /\ UNCHANGED thread

Layout ==
    \E arg \in LayoutArgs :
      \E seed \in seeds_of(get_layout(arg)) :
        LET r == update_layout(current_data, arg, seed)
        IN  /\ current_data' = r.current_data
            /\ resp' = r.resp
            /\ UNCHANGED <<uploads, thread>>

Highlight ==
    \E arg \in NodeIdArgs :
        /\ resp' = highlight_data(current_data, arg)
        /\ UNCHANGED <<current_data, uploads, thread>>

Nodes ==
    /\ resp' = get_nodes(current_data)
    /\ UNCHANGED <<current_data, uploads, thread>>

FullGraph ==
    /\ resp' = get_full_graph(current_data)
    /\ UNCHANGED <<current_data, uploads, thread>>

Filter ==
    \E arg \in FilterArgs :
        /\ resp' = filter_data(current_data, arg)
        /\ UNCHANGED <<current_data, uploads, thread>>

FilterByUser ==
    \E arg \in UserArgs :
        /\ resp' = filter_by_user_route(current_data, arg)
        /\ UNCHANGED <<current_data, uploads, thread>>

Next ==
    \/ Upload
    \/ UploadNoFile
    \/ Layout
    \/ Highlight
    \/ Nodes
    \/ FullGraph
    \/ Filter
    \/ FilterByUser

Spec == Init /\ [][Next]_vars

(***************************************************************************)
(* Requests served concurrently, one thread per request (the development   *)
(* server app.run starts is threaded).  A step of a thread is a block of   *)
(* statements with one access to the global current_data: the statement    *)
(* that reads or assigns it, with the local computation before it.  A dict *)
(* or list reached through current_data is shared, so the in-place         *)
(* node.update of lines 365-369 and the assignment of line 371 form one    *)
(* step, and so do the last read of a handler and its jsonify.             *)
(***************************************************************************)
ConcFiles == FilesUpTo(1)

ConcLayoutArgs == {a \in LayoutArgs : get_layout(a) \in {"grid", "smart"}}

ConcNodeIdArgs == {a \in NodeIdArgs : a.value \in {<< >>, <<"a">>}}

ConcFilterArgs == {a \in FilterArgs : a.start_date = a.end_date}

ConcUserArgs == {a \in UserArgs : a.value \in {<< >>, <<"b", "o">>}}

at(t, pc) == thread[t].pc = pc

goto(t, pc, arg, nodes, edges, error) ==
    thread' = [thread EXCEPT ![t] =
                  [pc |-> pc, arg |-> arg, nodes |-> nodes, edges |-> edges,
                   error |-> error]]

done(t) == goto(t, "done", NoArg, << >>, << >>, "")

\* upload_file line 239 into process_csv, up to line 221 or an error return
CUploadImport(t) ==
    /\ at(t, "new")
    /\ \E file \in ConcFiles, arg \in ConcLayoutArgs :
         \E seed \in seeds_of(get_layout(arg)) :
           LET r == process_csv(current_data, file, get_layout(arg), seed)
           IN  /\ current_data' = r.current_data
               /\ goto(t, "upload_return", arg, << >>, << >>, r.error)
    /\ UNCHANGED <<resp, uploads>>

\* line 226 (return current_data) and lines 240-246
CUploadReturn(t) ==
    /\ at(t, "upload_return")
    /\ LET data == IF thread[t].error # "" THEN error_dict(thread[t].error)
                   ELSE data_dict(current_data)
           r    == upload_response(thread[t].arg, data)
       IN  /\ resp' = r
           /\ uploads' = answered(r)
    /\ done(t)
    /\ UNCHANGED current_data

\* update_layout lines 343-350: the check and node_list = list(current_data['nodes'])
CLayoutRead(t) ==
    /\ at(t, "new")
    /\ \E arg \in ConcLayoutArgs :
         IF current_data.is_none
         THEN resp' = no_graph("/layout", arg) /\ done(t)
         ELSE /\ goto(t, "layout_compute", arg, current_data.nodes, << >>, "")
              /\ UNCHANGED resp
    /\ UNCHANGED <<current_data, uploads>>

\* lines 352-363: the positions; the smart layout reads current_data['edges']
CLayoutCompute(t) ==
    /\ at(t, "layout_compute")
    /\ LET arg       == thread[t].arg
           layout    == get_layout(arg)
           node_list == thread[t].nodes
       IN  \E seed \in seeds_of(layout) :
             LET node_positions ==
                     layout_positions(layout, node_list, current_data.edges, seed)
             IN  IF layout = "smart" /\ DOMAIN node_positions = {}
                 THEN /\ resp' = response("/layout", arg, 200,
                                          error_dict(MissingIpMessage))
                      /\ done(t)
                 ELSE /\ goto(t, "layout_assign", arg,
                              apply_positions(node_list, node_positions), << >>, "")
                      /\ UNCHANGED resp
    /\ UNCHANGED <<current_data, uploads>>

\* lines 365-371: current_data['nodes'] = node_list
CLayoutAssign(t) ==
    /\ at(t, "layout_assign")
    /\ current_data' = [current_data EXCEPT !.nodes = thread[t].nodes]
    /\ goto(t, "layout_return", thread[t].arg, << >>, << >>, "")
    /\ UNCHANGED <<resp, uploads>>

\* line 376
CLayoutReturn(t) ==
    /\ at(t, "layout_return")
    /\ resp' = response("/layout", thread[t].arg, 200, data_dict(current_data))
    /\ done(t)
    /\ UNCHANGED <<current_data, uploads>>

\* highlight_data lines 251-264: the checks and the read of current_data['edges']
CHighlightEdges(t) ==
    /\ at(t, "new")
    /\ \E arg \in ConcNodeIdArgs :
         IF current_data.is_none \/ ~arg.present \/ arg.value = << >>
         THEN resp' = highlight_data(current_data, arg) /\ done(t)
         ELSE /\ goto(t, "highlight_nodes", arg, << >>,
                      highlighted_edges(current_data.edges, arg.value), "")
              /\ UNCHANGED resp
    /\ UNCHANGED <<current_data, uploads>>

\* lines 266-273: the read of current_data['nodes']
CHighlightNodes(t) ==
    /\ at(t, "highlight_nodes")
    /\ LET edges == thread[t].edges
           ids   == highlighted_nodes_ids(edges, thread[t].arg.value)
       IN  resp' = response("/highlight", thread[t].arg, 200,
                            graph_body(nodes_with_ids(current_data.nodes, ids), edges))
    /\ done(t)
    /\ UNCHANGED <<current_data, uploads>>

\* filter_data lines 295-309
CFilterEdges(t) ==
    /\ at(t, "new")
    /\ \E arg \in ConcFilterArgs :
         IF \/ current_data.is_none
            \/ ~arg.present
            \/ ~date_ok(arg.start_date)
            \/ ~date_ok(arg.end_date)
         THEN resp' = filter_data(current_data, arg) /\ done(t)
         ELSE /\ goto(t, "filter_nodes", arg, << >>,
                      filtered_edges(current_data.edges, start_of(arg.start_date),
                                     end_of(arg.end_date)), "")
              /\ UNCHANGED resp
    /\ UNCHANGED <<current_data, uploads>>

\* lines 311-314
CFilterNodes(t) ==
    /\ at(t, "filter_nodes")
    /\ LET edges == thread[t].edges
       IN  resp' = response("/filter", thread[t].arg, 200,
                            graph_body(nodes_with_ids(current_data.nodes,
                                                      endpoint_ids(edges)), edges))
    /\ done(t)
    /\ UNCHANGED <<current_data, uploads>>

\* filter_by_user_route lines 322-329
CUserEdges(t) ==
    /\ at(t, "new")
    /\ \E arg \in ConcUserArgs :
         IF current_data.is_none \/ ~arg.present
         THEN resp' = filter_by_user_route(current_data, arg) /\ done(t)
         ELSE /\ goto(t, "user_nodes", arg, << >>,
                      user_filtered_edges(current_data.edges, arg.value), "")
              /\ UNCHANGED resp
    /\ UNCHANGED <<current_data, uploads>>

\* lines 331-335
CUserNodes(t) ==
    /\ at(t, "user_nodes")
    /\ LET edges == thread[t].edges
       IN  resp' = response("/filter_by_user", thread[t].arg, 200,
                            graph_body(nodes_with_ids(current_data.nodes,
                                                      endpoint_ids(edges)), edges))
    /\ done(t)
    /\ UNCHANGED <<current_data, uploads>>

\* get_nodes and get_full_graph read current_data once after the check
CNodes(t) ==
    /\ at(t, "new")
    /\ resp' = get_nodes(current_data)
    /\ done(t)
    /\ UNCHANGED <<current_data, uploads>>

CFullGraph(t) ==
    /\ at(t, "new")
    /\ resp' = get_full_graph(current_data)
    /\ done(t)
    /\ UNCHANGED <<current_data, uploads>>

NextConc ==
    \E t \in Threads :
        \/ CUploadImport(t)
        \/ CUploadReturn(t)
        \/ CLayoutRead(t)
        \/ CLayoutCompute(t)
        \/ CLayoutAssign(t)
        \/ CLayoutReturn(t)
        \/ CHighlightEdges(t)
        \/ CHighlightNodes(t)
        \/ CFilterEdges(t)
        \/ CFilterNodes(t)
        \/ CUserEdges(t)
        \/ CUserNodes(t)
        \/ CNodes(t)
        \/ CFullGraph(t)

SpecConc == Init /\ [][NextConc]_vars

(***************************************************************************)
(* Properties                                                              *)
(***************************************************************************)
published == ~current_data.is_none

snapshot_ids == ids_of(current_data.nodes)

snapshot_edges == Range(current_data.edges)

answers(endpoint) == resp.endpoint = endpoint /\ resp.status = 200 /\ ~resp.is_error

\* C1: the published snapshot is absent, or both ends of each of its edges
\* are ids of nodes of the same snapshot.
ReferentialIntegrity ==
    published =>
        \A e \in snapshot_edges : e.source \in snapshot_ids /\ e.target \in snapshot_ids

\* a layout change has been applied to a snapshot of three nodes and two edges
ReferentialIntegrityWitness ==
    /\ answers("/layout")
    /\ Cardinality(snapshot_ids) >= 3
    /\ Len(current_data.edges) >= 2

\* C2: a step that answers /upload with an error leaves current_data as it
\* was: same nodes, same edges, same positions.
FailedUploadKeepsSnapshot ==
    [][(resp'.endpoint = "/upload" /\ resp'.is_error) => current_data' = current_data]_vars

\* an upload whose smart layout found no positions, answered while an earlier
\* snapshot is published
FailedUploadKeepsSnapshotWitness ==
    /\ resp.endpoint = "/upload"
    /\ resp.is_error
    /\ resp.error = MissingIpMessage
    /\ published

\* C3: under concurrent requests the published node list and edge list come
\* from one upload: the node ids are exactly the ends of the edges.
SnapshotOfOneUpload ==
    published =>
        snapshot_ids = {e.source : e \in snapshot_edges} \cup {e.target : e \in snapshot_edges}

\* C4: under concurrent requests, every edge of a response of /highlight,
\* /filter or /filter_by_user has both ends among the nodes of that response.
QueryResponseOfOneSnapshot ==
    (answers("/highlight") \/ answers("/filter") \/ answers("/filter_by_user")) =>
        \A e \in Range(resp.edges) :
            e.source \in ids_of(resp.nodes) /\ e.target \in ids_of(resp.nodes)

QueryEndpoints ==
    {"/highlight", "/nodes", "/full_graph", "/filter", "/filter_by_user", "/layout"}

\* C5: as long as no /upload has been answered with 200, whatever uploads
\* have failed, the six endpoints answer 400 "No graph data available"; once
\* one has, none of them gives that error.
NoGraphUntilUpload ==
    resp.endpoint \in QueryEndpoints =>
        IF uploads = "ok"
        THEN resp.error # NoGraphMessage
        ELSE resp.status = 400 /\ resp.is_error /\ resp.error = NoGraphMessage

\* /layout refused after an upload has failed and none has succeeded
NoGraphUntilUploadWitness ==
    /\ uploads = "failed"
    /\ resp.endpoint = "/layout"
    /\ resp.status = 400

\* C6: a response whose body is an error object has a status outside 200-299.
ErrorResponseNot2xx ==
    resp.is_error => resp.status \notin 200..299

\* C7: /highlight of a non-empty node id X returns the snapshot edges with
\* source or target X, all of them and no other, and the snapshot nodes that
\* are an end of a returned edge, all of them and no other.
HighlightExact ==
    answers("/highlight") =>
        LET X == resp.arg.value
            touches(e) == e.source = X \/ e.target = X
            returned == Range(resp.edges)
        IN  /\ X # << >>
            /\ returned = {e \in snapshot_edges : touches(e)}
            /\ Len(resp.edges) =
                   Cardinality({i \in 1..Len(current_data.edges) :
                                    touches(current_data.edges[i])})
            /\ Range(resp.nodes) =
                   {n \in Range(current_data.nodes) :
                        \E e \in returned : n.id = e.source \/ n.id = e.target}
            /\ Len(resp.nodes) = Cardinality(Range(resp.nodes))

\* a highlight that returns some edges of the snapshot and leaves out others
HighlightExactWitness ==
    /\ answers("/highlight")
    /\ resp.edges # << >>
    /\ Len(resp.edges) < Len(current_data.edges)
    /\ Len(resp.nodes) >= 2

requested_start == timestamp(resp.arg.start_date \o <<0>>)

requested_end == timestamp(resp.arg.end_date \o <<0>>)

end_of_day == requested_end + 24 * 60 * 60 - 1

range_covers_all ==
    \A e \in snapshot_edges : requested_start <= e.timestamp /\ e.timestamp <= requested_end

\* C8 as claimed: a /filter whose range [start_date, end_date] has every
\* timestamp before start_date or after end_date returns no node and no
\* edge, and one whose range covers every timestamp returns all edges.
FilterOutsideRequestedRange ==
    answers("/filter") =>
        /\ (\A e \in snapshot_edges :
                e.timestamp < requested_start \/ e.timestamp > requested_end)
           => resp.nodes = << >> /\ resp.edges = << >>
        /\ range_covers_all => resp.edges = current_data.edges

\* C8 as amended: the range that counts runs to end_date plus one day less
\* one second; a /filter with every timestamp before start_date or after
\* that instant returns no node and no edge, and one whose range covers
\* every timestamp returns all edges.
FilterOutsideExtendedRange ==
    answers("/filter") =>
        /\ (\A e \in snapshot_edges :
                e.timestamp < requested_start \/ e.timestamp > end_of_day)
           => resp.nodes = << >> /\ resp.edges = << >>
        /\ range_covers_all => resp.edges = current_data.edges

\* a /filter over a day that holds none of the snapshot's timestamps
FilterOutsideExtendedRangeWitness ==
    /\ answers("/filter")
    /\ requested_start <= requested_end
    /\ current_data.edges # << >>
    /\ \A e \in snapshot_edges :
           e.timestamp < requested_start \/ e.timestamp > end_of_day
    /\ resp.edges = << >>

\* the number of edges that touch the node
edges_touching(id) ==
    Cardinality({i \in 1..Len(current_data.edges) :
                    current_data.edges[i].source = id \/ current_data.edges[i].target = id})

\* the number of edge ends at the node: an edge from the node to itself
\* counts twice
edge_ends(id) ==
    Cardinality({i \in 1..Len(current_data.edges) : current_data.edges[i].source = id})
    + Cardinality({i \in 1..Len(current_data.edges) : current_data.edges[i].target = id})

\* size = 10 + 20 * degree / max_degree, for a size kept as num / den
size_is(size, degree, max_degree) ==
    size.num * max_degree = size.den * (10 * max_degree + 20 * degree)

size_leq(a, b) == a.num * b.den <= b.num * a.den

sizes_follow(degree(_)) ==
    published =>
        LET nodes == Range(current_data.nodes)
            max_degree == MaxOf({degree(n.id) : n \in nodes})
        IN  \A n \in nodes :
              /\ size_is(n.size, degree(n.id), max_degree)
              /\ degree(n.id) = max_degree => n.size.num = 30 * n.size.den
              /\ degree(n.id) >= 1
              /\ n.size.num > 10 * n.size.den
              /\ \A m \in nodes : degree(n.id) <= degree(m.id) => size_leq(n.size, m.size)

\* C9 as claimed: node size is 10 + 20 * degree / max_degree with degree the
\* number of edges touching the node; it does not decrease with the degree,
\* is 30 at the maximum degree, and every node has degree >= 1 and size > 10.
NodeSizeByEdgesTouching == sizes_follow(edges_touching)

\* C9 as amended: the same with degree the number of edge ends at the node,
\* so that an edge whose source and target are the same node adds two.
NodeSizeByEdgeEnds == sizes_follow(edge_ends)

\* a snapshot with an edge from a node to itself and nodes of two sizes
NodeSizeByEdgeEndsWitness ==
    /\ published
    /\ \E e \in snapshot_edges : e.source = e.target
    /\ \E n, m \in Range(current_data.nodes) : ~size_leq(n.size, m.size)

\* the node's IP has four dotted parts and a numeric third part
forms_group(node) == has_quad_ip(node) /\ int_ok(split(node.ip)[3])

\* C10: a smart /layout fails only when no node of the snapshot forms a
\* group; when some node does, it succeeds and gives every node a position,
\* the secondary random one to the nodes with no usable IP.
SmartFailsOnlyWithoutGroups ==
    (resp.endpoint = "/layout" /\ resp.status = 200 /\ get_layout(resp.arg) = "smart") =>
        IF \E n \in Range(current_data.nodes) : forms_group(n)
        THEN /\ ~resp.is_error
             /\ \A n \in Range(resp.nodes) :
                    n.pos.alg = IF forms_group(n) THEN "smart" ELSE "smart_ungrouped"
        ELSE resp.is_error /\ resp.error = MissingIpMessage

====
